---- MODULE Spec2Model ----
(***************************************************************************)
(* Verification model of the polytropos Variable / Track schema model      *)
(* (polytropos/ontology/variable/__variable.py).                           *)
(*                                                                         *)
(* A Track is a mapping VariableId -> Variable kept in insertion order.    *)
(* Every Variable carries the structural attributes var_id, name,          *)
(* sort_order, parent and sources, a fixed concrete kind (its class) and a *)
(* per-instance memoization cache.                                          *)
(***************************************************************************)
EXTENDS Integers, Sequences, FiniteSets, TLC

VARIABLES track, order, source, cache, outcome, query

vars == <<track, order, source, cache, outcome, query>>

(***************************************************************************)
(* Bounds of the model.                                                    *)
(***************************************************************************)
\* largest sort_order a state may hold (update_sort_order can count upwards)
MaxSortOrder == 2
\* longest sources list offered to a write of 'sources'
MaxSrcLen == 1

(***************************************************************************)
(* Values.                                                                 *)
(***************************************************************************)
\* Python's None
None == "None"

\* the concrete classes of Variable (class hierarchy, lines 357-479)
Folder == "Folder"
List == "List"
NamedList == "NamedList"
Text == "Text"
Integer == "Integer"

Kinds == {Folder, List, NamedList, Text, Integer}

\* isinstance(v, GenericList): List and NamedList derive from GenericList
GenericList(kind) == kind \in {List, NamedList}

\* isinstance(v, Container): Folder and GenericList derive from Container
Container(kind) == kind \in {Folder, List, NamedList}

\* The variable ids of the Track under edit, with the class each is built as.
Ids == {"f1", "l1", "f2", "t1"}

KindOf(id) ==
    CASE id = "f1" -> Folder
      [] id = "f2" -> Folder
      [] id = "l1" -> List
      [] OTHER -> Text

\* Names are strings, modelled as sequences of characters.
Names == {<<"a">>, <<"b">>}
NameInputs == Names \cup {<<"a", "/", "b">>, <<"a", ".">>}

\* recursion depth after which Python raises RecursionError: a parent chain
\* longer than the number of variables has revisited a variable
Depth == Cardinality(Ids) + 1

\* the raised-exception marker of an operator that may raise
Raise == "raise"
Ok == "ok"

(***************************************************************************)
(* The upstream ("source") Track: a fixed, valid, acyclic Track.           *)
(***************************************************************************)
SrcIds == {"sf", "sl", "sn", "st", "si"}

Var(id, kind, name, so, parent, sources) ==
    [var_id |-> id, kind |-> kind, name |-> name, sort_order |-> so,
     parent |-> parent, sources |-> sources]

Upstream ==
    [id \in SrcIds |->
        CASE id = "sf" -> Var("sf", Folder, <<"a">>, 0, None, <<>>)
          [] id = "sl" -> Var("sl", List, <<"b">>, 1, None, <<>>)
          [] id = "sn" -> Var("sn", NamedList, <<"c">>, 2, None, <<>>)
          [] id = "st" -> Var("st", Text, <<"a">>, 0, "sl", <<>>)
          [] OTHER     -> Var("si", Integer, <<"a">>, 0, "sf", <<>>)]

\* source ids offered to validation: the upstream ids and one unknown id
SrcInputs == SrcIds \cup {"zz"}

RECURSIVE SeqsUpTo(_, _)
SeqsUpTo(S, n) ==
    IF n = 0 THEN {<<>>}
    ELSE LET shorter == SeqsUpTo(S, n - 1)
         IN shorter \cup {Append(s, x) : s \in {t \in shorter : Len(t) = n - 1}, x \in S}

Range(s) == {s[i] : i \in 1..Len(s)}

(***************************************************************************)
(* Track queries.                                                          *)
(***************************************************************************)
\* Track.values(): the variables in insertion order (ids stand for them)
values(ord) == ord

\* Variable.children: the variables whose parent equals this var_id
children(tr, ord, var_id) ==
    SelectSeq(values(ord), LAMBDA x : tr[x].parent = var_id)

\* Track.roots: the variables without a parent
roots(tr, ord) ==
    SelectSeq(values(ord), LAMBDA x : tr[x].parent = None)

\* Variable.siblings raises KeyError when self.parent is not in the track
siblings_raises(tr, var) ==
    var.parent # None /\ var.parent \notin DOMAIN tr

\* Variable.siblings (where it does not raise)
siblings(tr, ord, var) ==
    IF var.parent = None THEN roots(tr, ord)
    ELSE IF siblings_raises(tr, var) THEN <<>>
    ELSE children(tr, ord, tr[var.parent].var_id)

\* Variable.descends_from_list of the variable whose parent is parent;
\* "T", "F", or Raise (KeyError on an unknown parent, RecursionError on a
\* parent cycle without a list on it)
RECURSIVE dfl(_, _, _)
dfl(tr, parent, fuel) ==
    IF parent = None \/ parent = "" THEN "F"
    ELSE IF parent \notin DOMAIN tr THEN Raise
    ELSE IF GenericList(tr[parent].kind) THEN "T"
    ELSE IF fuel = 0 THEN Raise
    ELSE dfl(tr, tr[parent].parent, fuel - 1)

descends_from_list(tr, var) == dfl(tr, var.parent, Depth)

\* Variable.check_ancestor(child_id, stop_at_list) on the variable var_id of
\* track tr: "T", "F" or Raise (KeyError on an unknown id, RecursionError on
\* a parent cycle that does not contain var_id)
RECURSIVE ca(_, _, _, _, _)
ca(tr, var_id, child_id, stop_at_list, fuel) ==
    IF child_id \notin DOMAIN tr THEN Raise
    ELSE LET variable == tr[child_id] IN
         IF variable.parent = None THEN "F"
         ELSE IF stop_at_list /\ variable.parent \notin DOMAIN tr THEN Raise
         ELSE IF stop_at_list /\ GenericList(tr[variable.parent].kind) THEN "F"
         ELSE IF variable.parent = var_id THEN "T"
         ELSE IF fuel = 0 THEN Raise
         ELSE ca(tr, var_id, variable.parent, FALSE, fuel - 1)

check_ancestor(tr, var_id, child_id, stop_at_list) ==
    ca(tr, var_id, child_id, stop_at_list, Depth)

(***************************************************************************)
(* Validator.                                                              *)
(***************************************************************************)
\* _incompatible_type testing isinstance(variable, GenericList) where the
\* code tests variable.__class__ == List
incompatible_type_any_list(source_var, variable) ==
    IF GenericList(variable.kind)
    THEN source_var.kind \notin {List, Folder}
    ELSE source_var.kind # variable.kind

\* _incompatible_type(source_var, variable)
incompatible_type(source_var, variable) ==
    IF variable.kind = List
    THEN source_var.kind \notin {List, Folder}
    ELSE source_var.kind # variable.kind

\* _check_folder_has_sources: TRUE iff it raises
check_folder_has_sources(variable, sources) ==
    Len(sources) > 0 /\ variable.kind = Folder

\* _verify_source_exists: TRUE iff it raises (the assert on a missing
\* upstream track, or the ValueError on an unknown id)
verify_source_exists(src, source_var_id) ==
    src = None \/ source_var_id \notin DOMAIN Upstream

\* _verify_source_compatible: TRUE iff it raises; only reached after
\* _verify_source_exists has passed
verify_source_compatible(variable, source_var_id) ==
    incompatible_type(Upstream[source_var_id], variable)

\* validate_sources without the call of _check_folder_has_sources
validate_sources_no_folder_check(src, variable, sources, init) ==
    IF \E i \in 1..Len(sources) :
            \/ verify_source_exists(src, sources[i])
            \/ verify_source_compatible(variable, sources[i])
    THEN Raise
    ELSE Ok

\* Validator.validate_sources
validate_sources(src, variable, sources, init) ==
    IF ~init /\ check_folder_has_sources(variable, sources) THEN Raise
    ELSE IF \E i \in 1..Len(sources) :
                \/ verify_source_exists(src, sources[i])
                \/ verify_source_compatible(variable, sources[i])
         THEN Raise
    ELSE Ok

\* Validator.validate_parent
validate_parent(tr, variable, parent) ==
    IF parent = None THEN Ok
    ELSE IF parent = "" THEN Raise
    ELSE IF parent \notin DOMAIN tr THEN Raise
    ELSE IF ~Container(tr[parent].kind) THEN Raise
    ELSE IF GenericList(variable.kind) /\ descends_from_list(tr, variable) = Raise
         THEN Raise
    ELSE Ok

\* '/' in name or '.' in name
HasDelimiter(name) == \E i \in 1..Len(name) : name[i] \in {"/", "."}

\* Validator.validate_name
validate_name(tr, ord, variable, name) ==
    IF HasDelimiter(name) THEN Raise
    ELSE IF siblings_raises(tr, variable) THEN Raise
    ELSE LET sibs == siblings(tr, ord, variable)
             sibling_names ==
                 {tr[sibs[i]].name : i \in {j \in 1..Len(sibs) : sibs[j] # variable.var_id}}
         IN IF name \in sibling_names THEN Raise ELSE Ok

\* Validator.validate_sort_order
validate_sort_order(tr, ord, variable, sort_order, adding) ==
    IF sort_order < 0 THEN Raise
    ELSE IF siblings_raises(tr, variable) THEN Raise
    ELSE IF sort_order >= Len(siblings(tr, ord, variable)) + (IF adding THEN 1 ELSE 0)
         THEN Raise
    ELSE Ok

\* Validator.validate_var_id
validate_var_id(var_id) == IF var_id = "" THEN Raise ELSE Ok

\* Validator.validate
validate(tr, ord, src, variable, init, adding) ==
    IF validate_var_id(variable.var_id) = Raise THEN Raise
    ELSE IF validate_parent(tr, variable, variable.parent) = Raise THEN Raise
    ELSE IF validate_name(tr, ord, variable, variable.name) = Raise THEN Raise
    ELSE IF src # None /\ validate_sources(src, variable, variable.sources, init) = Raise
         THEN Raise
    ELSE validate_sort_order(tr, ord, variable, variable.sort_order, adding)

(***************************************************************************)
(* Memoized derived properties (cachetools.cachedmethod over self._cache). *)
(* A cache entry is <<>> when absent and <<value>> when present.            *)
(***************************************************************************)
CacheKeys == {"relative_path", "absolute_path", "tree"}

EmptyCache == [k \in CacheKeys |-> <<>>]

\* Variable.invalidate_cache
invalidate_cache(ch, v) == [ch EXCEPT ![v] = EmptyCache]

\* Track.invalidate_variables_cache: every Variable of the Track drops its
\* memoized values
invalidate_variables_cache(ch) == [v \in DOMAIN ch |-> EmptyCache]

\* the outcome of reading a memoized property: it raises, or it returns
\* val; cache is the cache of every Variable after the read
Raised(ch) == [raised |-> TRUE, val |-> <<>>, cache |-> ch]
Returned(val, ch) == [raised |-> FALSE, val |-> val, cache |-> ch]

\* cachedmethod: the value is stored under key only when the body returns
Stored(ch, v, key, val) == Returned(val, [ch EXCEPT ![v][key] = <<val>>])

\* Variable.absolute_path, read through the cache
RECURSIVE absolute_path_read(_, _, _, _)
absolute_path_read(tr, ch, v, fuel) ==
    IF ch[v]["absolute_path"] # <<>> THEN Returned(ch[v]["absolute_path"][1], ch)
    ELSE IF tr[v].parent = None \/ tr[v].parent = ""
         THEN Stored(ch, v, "absolute_path", <<tr[v].name>>)
    ELSE IF tr[v].parent \notin DOMAIN tr \/ fuel = 0 THEN Raised(ch)
    ELSE LET r == absolute_path_read(tr, ch, tr[v].parent, fuel - 1)
         IN IF r.raised THEN r
            ELSE Stored(r.cache, v, "absolute_path", Append(r.val, tr[v].name))

\* relative_path starting a new path at a Variable that is itself a list,
\* where the code starts it below a list
RECURSIVE relative_path_read_own_kind(_, _, _, _)
relative_path_read_own_kind(tr, ch, v, fuel) ==
    IF ch[v]["relative_path"] # <<>> THEN Returned(ch[v]["relative_path"][1], ch)
    ELSE IF tr[v].parent = None \/ tr[v].parent = ""
         THEN Stored(ch, v, "relative_path", <<tr[v].name>>)
    ELSE IF tr[v].parent \notin DOMAIN tr THEN Raised(ch)
    ELSE IF GenericList(tr[v].kind)
         THEN Stored(ch, v, "relative_path", <<tr[v].name>>)
    ELSE IF fuel = 0 THEN Raised(ch)
    ELSE LET r == relative_path_read_own_kind(tr, ch, tr[v].parent, fuel - 1)
         IN IF r.raised THEN r
            ELSE Stored(r.cache, v, "relative_path", Append(r.val, tr[v].name))

\* Variable.relative_path, read through the cache
RECURSIVE relative_path_read(_, _, _, _)
relative_path_read(tr, ch, v, fuel) ==
    IF ch[v]["relative_path"] # <<>> THEN Returned(ch[v]["relative_path"][1], ch)
    ELSE IF tr[v].parent = None \/ tr[v].parent = ""
         THEN Stored(ch, v, "relative_path", <<tr[v].name>>)
    ELSE IF tr[v].parent \notin DOMAIN tr THEN Raised(ch)
    ELSE IF GenericList(tr[tr[v].parent].kind)
         THEN Stored(ch, v, "relative_path", <<tr[v].name>>)
    ELSE IF fuel = 0 THEN Raised(ch)
    ELSE LET r == relative_path_read(tr, ch, tr[v].parent, fuel - 1)
         IN IF r.raised THEN r
            ELSE Stored(r.cache, v, "relative_path", Append(r.val, tr[v].name))

\* sorted(ids, key=sort_order): stable, as Python's sort is
RECURSIVE sorted(_, _)
sorted(tr, ids) ==
    IF ids = <<>> THEN <<>>
    ELSE LET rest == sorted(tr, Tail(ids))
             x == Head(ids)
             before == SelectSeq(rest, LAMBDA y : tr[y].sort_order < tr[x].sort_order)
             after == SelectSeq(rest, LAMBDA y : tr[y].sort_order >= tr[x].sort_order)
         IN before \o <<x>> \o after

\* Variable.tree, read through the cache: <<title, varId, dataType, children>>
RECURSIVE tree_read(_, _, _, _, _)
RECURSIVE child_trees(_, _, _, _, _)
tree_read(tr, ord, ch, v, fuel) ==
    IF ch[v]["tree"] # <<>> THEN Returned(ch[v]["tree"][1], ch)
    ELSE IF fuel = 0 THEN Raised(ch)
    ELSE LET r == child_trees(tr, ord, ch, sorted(tr, children(tr, ord, tr[v].var_id)),
                              fuel - 1)
         IN IF r.raised THEN r
            ELSE Stored(r.cache, v, "tree",
                        <<tr[v].name, tr[v].var_id, tr[v].kind, r.val>>)

\* [child.tree for child in sorted(...)]
child_trees(tr, ord, ch, kids, fuel) ==
    IF kids = <<>> THEN Returned(<<>>, ch)
    ELSE LET first == tree_read(tr, ord, ch, Head(kids), fuel)
         IN IF first.raised THEN first
            ELSE LET rest == child_trees(tr, ord, first.cache, Tail(kids), fuel)
                 IN IF rest.raised THEN rest
                    ELSE Returned(<<first.val>> \o rest.val, rest.cache)

\* reading the memoized property key of Variable v
read_property(tr, ord, ch, v, key) ==
    CASE key = "absolute_path" -> absolute_path_read(tr, ch, v, Depth)
      [] key = "relative_path" -> relative_path_read(tr, ch, v, Depth)
      [] OTHER -> tree_read(tr, ord, ch, v, Depth)

(***************************************************************************)
(* Attribute writes.                                                       *)
(***************************************************************************)
\* the source ids a child keeps when its list parent takes the sources value:
\* those with a proper ancestor among value in the upstream Track
\* (lines 159-165)
safe_sources(child_sources, value) ==
    {cs \in child_sources :
        \E i \in 1..Len(value) : check_ancestor(Upstream, value[i], cs, FALSE) = "T"}

\* lines 154-169 of validate_attribute_value: pruning of the children's
\* sources after a write of sources on a GenericList; [raised, track]
prune_child_sources(tr, ord, src, v, value) ==
    LET kids == children(tr, ord, tr[v].var_id)
        child_sources == UNION {Range(tr[kids[i]].sources) : i \in 1..Len(kids)}
        safe == safe_sources(child_sources, value)
    IN IF src = None THEN [raised |-> TRUE, track |-> tr]
       ELSE IF \E i \in 1..Len(value), cs \in child_sources :
                    check_ancestor(Upstream, value[i], cs, FALSE) = Raise
            THEN [raised |-> TRUE, track |-> tr]
       ELSE [raised |-> FALSE,
             track |-> [x \in DOMAIN tr |->
                          IF x \in Range(kids)
                          THEN [tr[x] EXCEPT !.sources =
                                   SelectSeq(tr[x].sources, LAMBDA sid : sid \in safe)]
                          ELSE tr[x]]]

\* validate_attribute_value pruning the children's sources before the new
\* sources value has been validated
validate_attribute_value_prune_first(tr, ord, src, v, attribute, value) ==
    LET rejected == [raised |-> TRUE, track |-> tr, invalidate |-> FALSE]
        accepted == [raised |-> FALSE, track |-> tr,
                     invalidate |-> attribute \in {"sort_order", "parent", "name"}]
    IN CASE attribute = "var_id" ->
              IF validate_var_id(value) = Raise THEN rejected ELSE accepted
         [] attribute = "name" ->
              IF validate_name(tr, ord, tr[v], value) = Raise THEN rejected ELSE accepted
         [] attribute = "sources" ->
              LET pruned == IF GenericList(tr[v].kind) /\ src # None
                            THEN prune_child_sources(
                                     tr, ord, src, v,
                                     SelectSeq(value, LAMBDA sid : sid \in DOMAIN Upstream))
                            ELSE [raised |-> FALSE, track |-> tr]
              IN IF validate_sources(src, tr[v], value, FALSE) = Raise \/ pruned.raised
                 THEN [rejected EXCEPT !.track = pruned.track]
                 ELSE [accepted EXCEPT !.track = pruned.track]
         [] attribute = "parent" ->
              IF validate_parent(tr, tr[v], value) = Raise THEN rejected ELSE accepted
         [] attribute = "sort_order" ->
              IF validate_sort_order(tr, ord, tr[v], value, FALSE) = Raise
              THEN rejected ELSE accepted
         [] OTHER -> accepted

\* Variable.validate_attribute_value: [raised, track, invalidate], where
\* track is the Track as the call leaves it (side effects on other variables
\* included, also when it raises) and invalidate tells whether
\* Track.invalidate_variables_cache was called
validate_attribute_value(tr, ord, src, v, attribute, value) ==
    LET rejected == [raised |-> TRUE, track |-> tr, invalidate |-> FALSE]
        accepted == [raised |-> FALSE, track |-> tr,
                     invalidate |-> attribute \in {"sort_order", "parent", "name"}]
    IN CASE attribute = "var_id" ->
              IF validate_var_id(value) = Raise THEN rejected ELSE accepted
         [] attribute = "name" ->
              IF validate_name(tr, ord, tr[v], value) = Raise THEN rejected ELSE accepted
         [] attribute = "sources" ->
              IF validate_sources(src, tr[v], value, FALSE) = Raise THEN rejected
              ELSE IF GenericList(tr[v].kind)
                   THEN LET pruned == prune_child_sources(tr, ord, src, v, value)
                        IN IF pruned.raised THEN rejected
                           ELSE [accepted EXCEPT !.track = pruned.track]
                   ELSE accepted
         [] attribute = "parent" ->
              IF validate_parent(tr, tr[v], value) = Raise THEN rejected ELSE accepted
         [] attribute = "sort_order" ->
              IF validate_sort_order(tr, ord, tr[v], value, FALSE) = Raise
              THEN rejected ELSE accepted
         [] OTHER -> accepted

\* self.__dict__[attribute] = value
write_attribute(tr, v, attribute, value) ==
    CASE attribute = "var_id" -> [tr EXCEPT ![v].var_id = value]
      [] attribute = "name" -> [tr EXCEPT ![v].name = value]
      [] attribute = "sources" -> [tr EXCEPT ![v].sources = value]
      [] attribute = "parent" -> [tr EXCEPT ![v].parent = value]
      [] attribute = "sort_order" -> [tr EXCEPT ![v].sort_order = value]
      [] OTHER -> tr

\* Variable.__setattr__ on an initialized Variable: [raised, track, cache]
setattr(tr, ord, src, ch, v, attribute, value) ==
    LET checked == validate_attribute_value(tr, ord, src, v, attribute, value)
    IN IF checked.raised
       THEN [raised |-> TRUE, track |-> checked.track, cache |-> ch]
       ELSE [raised |-> FALSE,
             track |-> write_attribute(checked.track, v, attribute, value),
             cache |-> IF checked.invalidate THEN invalidate_variables_cache(ch) ELSE ch]

\* update_sort_order comparing with > where the code compares with >=
update_sort_order_strict(tr, ord, var, old_order, new_order) ==
    LET sibs == siblings(tr, ord, var)
        old == IF old_order = <<>> THEN Len(sibs) + 1 ELSE old_order[1]
        new == IF new_order = <<>> THEN Len(sibs) + 1 ELSE new_order[1]
        diff(x) == (IF tr[x].sort_order > new THEN 1 ELSE 0)
                   - (IF tr[x].sort_order > old THEN 1 ELSE 0)
    IN [x \in DOMAIN tr |->
          IF x \in Range(sibs) /\ x # var.var_id
          THEN [tr[x] EXCEPT !.sort_order = tr[x].sort_order + diff(x)]
          ELSE tr[x]]

\* Variable.update_sort_order(old_order, new_order) of variable var (which
\* need not be in the track yet); an argument is <<k>>, or <<>> when it is
\* omitted (None)
update_sort_order(tr, ord, var, old_order, new_order) ==
    LET sibs == siblings(tr, ord, var)
        old == IF old_order = <<>> THEN Len(sibs) + 1 ELSE old_order[1]
        new == IF new_order = <<>> THEN Len(sibs) + 1 ELSE new_order[1]
        diff(x) == (IF tr[x].sort_order >= new THEN 1 ELSE 0)
                   - (IF tr[x].sort_order >= old THEN 1 ELSE 0)
    IN [x \in DOMAIN tr |->
          IF x \in Range(sibs) /\ x # var.var_id
          THEN [tr[x] EXCEPT !.sort_order = tr[x].sort_order + diff(x)]
          ELSE tr[x]]

(***************************************************************************)
(* Editing a Track: the attribute writes, update_sort_order and the        *)
(* construction of a new Variable.                                         *)
(***************************************************************************)
ParentInputs == Ids \cup {None, ""}
SortOrderInputs == -1..(MaxSortOrder + 1)
SourcesInputs == SeqsUpTo(SrcInputs, MaxSrcLen)
\* an optional sort order argument: <<>> when omitted
OrderArgs == {<<>>} \cup {<<k>> : k \in 0..MaxSortOrder}

Outcome(op, raised) == [op |-> op, res |-> IF raised THEN Raise ELSE Ok]

SetAttr(v, attribute, value) ==
    LET r == setattr(track, order, source, cache, v, attribute, value)
    IN /\ track' = r.track
       /\ cache' = r.cache
       /\ outcome' = Outcome(attribute, r.raised)
       /\ UNCHANGED <<order, source, query>>

\* the Track never rekeys a Variable: var_id is written with the empty
\* string or with the id the Variable already has
SetVarId(v) == \E value \in {"", v} : SetAttr(v, "var_id", value)

SetName(v) == \E value \in NameInputs : SetAttr(v, "name", value)

SetParent(v) == \E value \in ParentInputs : SetAttr(v, "parent", value)

SetSortOrder(v) == \E value \in SortOrderInputs : SetAttr(v, "sort_order", value)

SetSources(v) == \E value \in SourcesInputs : SetAttr(v, "sources", value)

\* a call of update_sort_order on a Variable of the Track; old_order is
\* omitted or the position the Variable has, new_order is omitted or any
\* position
UpdateSortOrder(v) ==
    \E old \in {<<>>, <<track[v].sort_order>>}, new \in OrderArgs :
        LET tr2 == update_sort_order(track, order, track[v], old, new)
        IN /\ \A x \in DOMAIN tr2 : tr2[x].sort_order \in 0..MaxSortOrder
           /\ track' = tr2
           /\ outcome' = Outcome("update_sort_order", FALSE)
           /\ UNCHANGED <<order, source, cache, query>>

\* construction of a new Variable in the Track: validated with adding set,
\* the siblings make room at its sort_order, then it becomes visible
Add(id) ==
    \E name \in Names, parent \in (DOMAIN track) \cup {None}, k \in 0..MaxSortOrder :
        LET variable == Var(id, KindOf(id), name, k, parent, <<>>)
            raised == validate(track, order, source, variable, FALSE, TRUE) = Raise
            tr2 == update_sort_order(track, order, variable, <<>>, <<k>>)
        IN /\ id \notin DOMAIN track
           /\ \A x \in DOMAIN tr2 : tr2[x].sort_order \in 0..MaxSortOrder
           /\ outcome' = Outcome("add", raised)
           /\ IF raised
              THEN UNCHANGED <<track, order, cache>>
              ELSE /\ track' = [x \in (DOMAIN track) \cup {id} |->
                                  IF x = id THEN variable ELSE tr2[x]]
                   /\ order' = Append(order, id)
                   /\ cache' = [x \in (DOMAIN track) \cup {id} |-> EmptyCache]
           /\ UNCHANGED <<source, query>>

NoQuery == [op |-> "none"]

(***************************************************************************)
(* Structural editing of a Track: names, parents and sort orders of up to  *)
(* three Variables (a Folder, a List and a Text).                          *)
(***************************************************************************)
EditIds == {"f1", "l1", "t1"}

Init ==
    /\ track = [x \in {"f1"} |-> Var("f1", Folder, <<"a">>, 0, None, <<>>)]
    /\ order = <<"f1">>
    /\ source = "upstream"
    /\ cache = [x \in {"f1"} |-> EmptyCache]
    /\ outcome = Outcome("init", FALSE)
    /\ query = NoQuery

Next ==
    \/ \E v \in DOMAIN track : SetName(v)
    \/ \E v \in DOMAIN track : SetParent(v)
    \/ \E v \in DOMAIN track : SetSortOrder(v)
    \/ \E v \in DOMAIN track : UpdateSortOrder(v)
    \/ \E id \in EditIds : Add(id)

Spec == Init /\ [][Next]_vars

\* Insertions among moves: Variables are added, moved to another parent and
\* renumbered, with names and plain sort_order writes left out
NextInsert ==
    \/ \E v \in DOMAIN track : SetParent(v)
    \/ \E v \in DOMAIN track : UpdateSortOrder(v)
    \/ \E id \in EditIds : Add(id)

SpecInsert == Init /\ [][NextInsert]_vars

(***************************************************************************)
(* Properties of structural editing.                                       *)
(***************************************************************************)
\* following parent from v reaches a root within fuel steps
RECURSIVE ReachesRoot(_, _, _)
ReachesRoot(tr, v, fuel) ==
    IF tr[v].parent = None THEN TRUE
    ELSE IF fuel = 0 \/ tr[v].parent \notin DOMAIN tr THEN FALSE
    ELSE ReachesRoot(tr, tr[v].parent, fuel - 1)

Acyclic(tr) == \A v \in DOMAIN tr : ReachesRoot(tr, v, Cardinality(DOMAIN tr))

\* the variables of the sibling group under parent p (None: the roots)
Group(tr, p) == {x \in DOMAIN tr : tr[x].parent = p}

SortOrders(tr, S) == {tr[x].sort_order : x \in S}

\* C2: the parent links of the Track stay acyclic: from every Variable the
\* parent chain reaches a root, so no Variable is its own parent or sits
\* under one of its own descendants.
C2_ParentLinksAcyclic == Acyclic(track)

\* C3: in a Track whose parent links form a forest, no two distinct Variables
\* with the same parent (or two roots) share a name, and no name contains
\* '/' or '.'.
C3_SiblingNamesUnique ==
    Acyclic(track) =>
        /\ \A x \in DOMAIN track, y \in DOMAIN track :
              (x # y /\ track[x].parent = track[y].parent)
                  => track[x].name # track[y].name
        /\ \A x \in DOMAIN track : ~HasDelimiter(track[x].name)

\* C4: in a Track whose parent links form a forest, every sibling group of
\* size n holds the sort_orders 0..n-1, without gaps and without duplicates.
C4_SortOrderContiguous ==
    Acyclic(track) =>
        \A x \in DOMAIN track :
            LET g == Group(track, track[x].parent)
            IN SortOrders(track, g) = 0..(Cardinality(g) - 1)

\* the step makes the Variable id visible in the Track
Added(id) == id \notin DOMAIN track /\ id \in DOMAIN track'

\* C5: when the existing siblings hold the sort_orders 0..n-2, inserting a
\* new sibling at sort_order k (0 <= k <= n-1) raises by exactly one the
\* sort_order of every existing sibling at k or above, leaves the siblings
\* below k unchanged, and the group with the new Variable holds exactly
\* 0..n-1.
C5_InsertShiftsSiblings ==
    [][\A id \in EditIds :
          Added(id) =>
              LET k == track'[id].sort_order
                  g == Group(track, track'[id].parent)
                  n == Cardinality(g) + 1
              IN SortOrders(track, g) = 0..(n - 2) =>
                     /\ k \in 0..(n - 1)
                     /\ \A x \in g :
                           track'[x].sort_order =
                               IF track[x].sort_order >= k
                               THEN track[x].sort_order + 1
                               ELSE track[x].sort_order
                     /\ SortOrders(track', g \cup {id}) = 0..(n - 1)]_vars

\* C5 witness: the Variable added last went between two existing siblings,
\* one below its sort_order and one shifted above it.
C5_Witness ==
    /\ outcome = Outcome("add", FALSE)
    /\ Acyclic(track)
    /\ LET id == order[Len(order)]
           g == Group(track, track[id].parent)
       IN /\ SortOrders(track, g) = 0..2
          /\ track[id].sort_order = 1

(***************************************************************************)
(* Attribute writes on an initialized Track of two Variables: a root       *)
(* container and, under it or beside it, a second Variable; the List and   *)
(* the Text start with declared sources.                                   *)
(***************************************************************************)
WriteTracks ==
    {[x \in {"l1", "t1"} |->
         IF x = "l1" THEN Var("l1", List, <<"b">>, 0, None, <<"sl">>)
         ELSE Var("t1", Text, <<"a">>, 0, "l1", <<"st">>)],
     [x \in {"f1", "t1"} |->
         IF x = "f1" THEN Var("f1", Folder, <<"a">>, 0, None, <<>>)
         ELSE Var("t1", Text, <<"a">>, 0, "f1", <<"st">>)],
     [x \in {"f1", "l1"} |->
         IF x = "f1" THEN Var("f1", Folder, <<"a">>, 0, None, <<>>)
         ELSE Var("l1", List, <<"b">>, 1, None, <<"sl">>)]}

\* the insertion order of a two-variable Track: the container first
OrderOf(tr) == IF "f1" \in DOMAIN tr
               THEN <<"f1">> \o (IF "l1" \in DOMAIN tr THEN <<"l1">> ELSE <<"t1">>)
               ELSE <<"l1", "t1">>

InitWrite ==
    /\ track \in WriteTracks
    /\ order = OrderOf(track)
    /\ source \in {None, "upstream"}
    /\ cache = [x \in DOMAIN track |-> EmptyCache]
    /\ outcome = Outcome("init", FALSE)
    /\ query = NoQuery

NextWrite ==
    \/ \E v \in DOMAIN track : SetVarId(v)
    \/ \E v \in DOMAIN track : SetName(v)
    \/ \E v \in DOMAIN track : SetParent(v)
    \/ \E v \in DOMAIN track : SetSortOrder(v)
    \/ \E v \in DOMAIN track : SetSources(v)

SpecWrite == InitWrite /\ [][NextWrite]_vars

\* C1: a rejected attribute write leaves every attribute of every Variable
\* of the Track, and every memoized value, exactly as it was before the
\* call.
C1_RejectedWriteChangesNothing ==
    [][outcome'.res = Raise => UNCHANGED <<track, order, source, cache>>]_vars

\* C1 witness: a write of sources was rejected while the List still has a
\* child whose sources an accepted write would have pruned.
C1_Witness ==
    /\ outcome = Outcome("sources", TRUE)
    /\ source = "upstream"
    /\ DOMAIN track = {"l1", "t1"}
    /\ track["t1"].parent = "l1"
    /\ track["t1"].sources # <<>>
    /\ track["l1"].sources # <<>>

(***************************************************************************)
(* Memoized properties under structural edits: a Folder with a List and a  *)
(* Text under it; the properties are read between the edits.               *)
(***************************************************************************)
\* a read of a memoized property of Variable v
ReadProperty(v) ==
    \E key \in CacheKeys :
        LET r == read_property(track, order, cache, v, key)
        IN /\ cache' = r.cache
           /\ outcome' = Outcome(key, r.raised)
           /\ UNCHANGED <<track, order, source, query>>

InitCache ==
    /\ track = [x \in EditIds |->
                  CASE x = "f1" -> Var("f1", Folder, <<"a">>, 0, None, <<>>)
                    [] x = "l1" -> Var("l1", List, <<"a">>, 0, "f1", <<>>)
                    [] OTHER    -> Var("t1", Text, <<"b">>, 1, "f1", <<>>)]
    /\ order = <<"f1", "l1", "t1">>
    /\ source = "upstream"
    /\ cache = [x \in EditIds |-> EmptyCache]
    /\ outcome = Outcome("init", FALSE)
    /\ query = NoQuery

\* the root is renamed, the Text is moved and reordered; every Variable is
\* read and makes its siblings renumber
NextCache ==
    \/ \E v \in DOMAIN track : ReadProperty(v)
    \/ \E v \in {"f1"} : SetName(v)
    \/ \E v \in {"t1"} : SetParent(v)
    \/ \E v \in {"t1"} : SetSortOrder(v)
    \/ \E v \in DOMAIN track : UpdateSortOrder(v)

SpecCache == InitCache /\ [][NextCache]_vars

\* the value of property key of v recomputed with an empty cache
Fresh(v, key) ==
    read_property(track, order, [x \in DOMAIN track |-> EmptyCache], v, key)

\* C6: memoized derived properties are never stale: every memoized
\* absolute_path, relative_path and tree equals the value recomputed from
\* the current attributes with an empty cache.
C6_MemoNeverStale ==
    \A v \in DOMAIN track, key \in CacheKeys :
        cache[v][key] # <<>> =>
            /\ ~Fresh(v, key).raised
            /\ cache[v][key][1] = Fresh(v, key).val

(***************************************************************************)
(* Validation calls: a Variable under construction is validated against a  *)
(* Track holding a root Folder and a Text under it.  The call is drawn     *)
(* first and then made; query holds the call and, once made, its result.   *)
(***************************************************************************)
Pending == "pending"

ValidationTrack ==
    [x \in {"f1", "t1"} |->
        IF x = "f1" THEN Var("f1", Folder, <<"a">>, 0, None, <<>>)
        ELSE Var("t1", Text, <<"a">>, 0, "f1", <<>>)]

\* the Variables offered to Validator.validate
Candidates ==
    {Var(id, kind, name, so, parent, sources) :
        id \in {"n1", ""}, kind \in Kinds,
        name \in {<<"a">>, <<"b">>, <<"a", ".">>},
        so \in {-1, 0, 1, 2}, parent \in {None, "f1", "t1"},
        sources \in SourcesInputs}

ValidateCalls ==
    {[op |-> "validate", variable |-> c, init |-> i, adding |-> a, res |-> Pending] :
        c \in Candidates, i \in BOOLEAN, a \in BOOLEAN}

VerifySourceCalls ==
    {[op |-> "verify_source", kind |-> k, source_id |-> sid, res |-> Pending] :
        k \in Kinds, sid \in SrcInputs}

\* Validator.validate(variable, init, adding)
CallValidate ==
    /\ query.op = "validate" /\ query.res = Pending
    /\ query' = [query EXCEPT !.res =
                    validate(track, order, source, query.variable, query.init, query.adding)]
    /\ UNCHANGED <<track, order, source, cache, outcome>>

\* _verify_source_exists followed by _verify_source_compatible, as
\* validate_sources calls them for one source id of a Variable of class kind
CallVerifySource ==
    /\ query.op = "verify_source" /\ query.res = Pending
    /\ LET variable == Var("n1", query.kind, <<"b">>, 0, None, <<query.source_id>>)
       IN query' = [query EXCEPT !.res =
                       IF \/ verify_source_exists(source, query.source_id)
                          \/ verify_source_compatible(variable, query.source_id)
                       THEN Raise ELSE Ok]
    /\ UNCHANGED <<track, order, source, cache, outcome>>

InitValidate ==
    /\ track = ValidationTrack
    /\ order = <<"f1", "t1">>
    /\ source \in {None, "upstream"}
    /\ cache = [x \in DOMAIN ValidationTrack |-> EmptyCache]
    /\ outcome = Outcome("init", FALSE)
    /\ query \in ValidateCalls \cup VerifySourceCalls

NextValidate ==
    \/ CallValidate
    \/ CallVerifySource

SpecValidate == InitValidate /\ [][NextValidate]_vars

\* C7: a Folder that declares one or more sources is rejected by
\* Validator.validate in every validation mode, with or without an upstream
\* Track.
C7_FolderWithSourcesRejected ==
    (/\ query.op = "validate"
     /\ query.res # Pending
     /\ query.variable.kind = Folder
     /\ query.variable.sources # <<>>)
        => query.res = Raise

\* C7 (amended): a Folder that declares one or more sources is rejected by
\* Validator.validate when validation is not in init mode and the Track has
\* an upstream Track.
C7_FolderWithSourcesRejectedStrict ==
    (/\ query.op = "validate"
     /\ query.res # Pending
     /\ query.variable.kind = Folder
     /\ query.variable.sources # <<>>
     /\ ~query.init
     /\ source # None)
        => query.res = Raise

\* C7 witness: a Folder valid in everything but its one Folder source has
\* been validated outside init mode against a Track with an upstream Track.
C7_Witness ==
    /\ query.op = "validate"
    /\ query.res = Raise
    /\ source # None
    /\ ~query.init
    /\ query.adding
    /\ query.variable = Var("n1", Folder, <<"b">>, 1, None, <<"sf">>)

\* the kinds the claim calls compatible
Compatible(source_kind, kind) ==
    \/ source_kind = kind
    \/ kind = List /\ source_kind \in {List, Folder}

\* C8: with an upstream Track, a source id is accepted for a Variable iff the
\* id exists upstream and the source's kind equals the Variable's kind or the
\* Variable is a List and the source a List or a Folder.
C8_SourceAcceptedIffCompatible ==
    (/\ query.op = "verify_source"
     /\ query.res # Pending
     /\ source # None)
        => (query.res = Ok <=>
               /\ query.source_id \in DOMAIN Upstream
               /\ Compatible(Upstream[query.source_id].kind, query.kind))

\* C8 witness: a List has been offered a Folder as source and accepted it.
C8_Witness ==
    /\ query.op = "verify_source"
    /\ source # None
    /\ query.kind = List
    /\ query.source_id = "sf"
    /\ query.res = Ok

(***************************************************************************)
(* Queries on a valid Track: check_ancestor and the path properties are    *)
(* called on every forest over a Folder, a List, a second Folder and a     *)
(* Text.  The call is drawn first and then made.                           *)
(***************************************************************************)
QueryName(id) ==
    CASE id = "f1" -> <<"a">>
      [] id = "l1" -> <<"b">>
      [] id = "f2" -> <<"c">>
      [] OTHER -> <<"d">>

QueryOrder == <<"f1", "l1", "f2", "t1">>

\* the position of id in the insertion order
Position(id) == CHOOSE i \in 1..Len(QueryOrder) : QueryOrder[i] = id

\* the Track with the given parent links; siblings are numbered in
\* insertion order
TrackOf(parents) ==
    [x \in Ids |->
        Var(x, KindOf(x), QueryName(x),
            Cardinality({y \in Ids : parents[y] = parents[x] /\ Position(y) < Position(x)}),
            parents[x], <<>>)]

\* the valid Tracks: every parent is a Container and the links form a forest
QueryTracks ==
    {tr \in {TrackOf(parents) :
                parents \in [Ids -> {None} \cup {c \in Ids : Container(KindOf(c))}]} :
        Acyclic(tr)}

CheckAncestorCalls ==
    {[op |-> "check_ancestor", var |-> v, child_id |-> c, stop_at_list |-> b,
      res |-> Pending] : v \in Ids, c \in Ids, b \in BOOLEAN}

\* res is <<>> until the property has returned, and then its value
PropertyCalls ==
    {[op |-> key, var |-> v, state |-> Pending, res |-> <<>>] :
        key \in {"relative_path", "absolute_path"}, v \in Ids}

\* Variable.check_ancestor(child_id, stop_at_list)
CallCheckAncestor ==
    /\ query.op = "check_ancestor" /\ query.res = Pending
    /\ query' = [query EXCEPT !.res =
                    check_ancestor(track, track[query.var].var_id, query.child_id,
                                   query.stop_at_list)]
    /\ UNCHANGED <<track, order, source, cache, outcome>>

\* a read of Variable.relative_path or Variable.absolute_path
CallProperty ==
    /\ query.op \in {"relative_path", "absolute_path"} /\ query.state = Pending
    /\ LET r == read_property(track, order, cache, query.var, query.op)
       IN /\ cache' = r.cache
          /\ query' = [query EXCEPT !.state = IF r.raised THEN Raise ELSE Ok,
                                    !.res = r.val]
    /\ UNCHANGED <<track, order, source, outcome>>

InitQuery ==
    /\ track \in QueryTracks
    /\ order = QueryOrder
    /\ source = "upstream"
    /\ cache = [x \in Ids |-> EmptyCache]
    /\ outcome = Outcome("init", FALSE)
    /\ query \in CheckAncestorCalls \cup PropertyCalls

NextQuery ==
    \/ CallCheckAncestor
    \/ CallProperty

SpecQuery == InitQuery /\ [][NextQuery]_vars

\* the ids on the parent chain of v, root first, v last (of a forest)
RECURSIVE Chain(_, _)
Chain(tr, v) ==
    IF tr[v].parent = None THEN <<v>>
    ELSE Append(Chain(tr, tr[v].parent), v)

\* v is a proper ancestor of c
ProperAncestor(tr, v, c) ==
    \E i \in 1..(Len(Chain(tr, c)) - 1) : Chain(tr, c)[i] = v

\* a List or NamedList lies on the parent chain strictly between c and v
ListBetween(tr, v, c) ==
    LET chain == Chain(tr, c)
    IN \E i \in 1..Len(chain), j \in 1..Len(chain) :
          /\ chain[i] = v /\ i < j /\ j < Len(chain)
          /\ GenericList(tr[chain[j]].kind)

\* C9: check_ancestor(c, stop_at_list) on v is true iff v is a proper
\* ancestor of c and, when stop_at_list is set, no List or NamedList lies on
\* the parent chain strictly between c and v, at whatever depth.
C9_CheckAncestorStopsAtLists ==
    (query.op = "check_ancestor" /\ query.res # Pending) =>
        (query.res = "T" <=>
            /\ ProperAncestor(track, query.var, query.child_id)
            /\ query.stop_at_list => ~ListBetween(track, query.var, query.child_id))

\* the names of the Variables of a chain
NamesOf(tr, chain) == [i \in 1..Len(chain) |-> tr[chain[i]].name]

\* the chain of v below its nearest proper ancestor that is a list, the
\* whole chain when it has none
BelowNearestList(tr, v) ==
    LET chain == Chain(tr, v)
        lists == {i \in 1..(Len(chain) - 1) : GenericList(tr[chain[i]].kind)}
        first == IF lists = {} THEN 1
                 ELSE 1 + CHOOSE i \in lists : \A j \in lists : j <= i
    IN SubSeq(chain, first, Len(chain))

IsSuffix(s, t) == Len(s) <= Len(t) /\ s = SubSeq(t, Len(t) - Len(s) + 1, Len(t))

\* C10: relative_path is the names from the child of the nearest enclosing
\* List or NamedList down to the Variable (from the root when there is no
\* such list), a suffix of absolute_path, which is every ancestor's name,
\* root first, ending with the Variable's own name.
C10_RelativePathBelowNearestList ==
    /\ (query.op = "relative_path" /\ query.state # Pending) =>
          /\ query.state = Ok
          /\ query.res = NamesOf(track, BelowNearestList(track, query.var))
          /\ IsSuffix(query.res, NamesOf(track, Chain(track, query.var)))
    /\ (query.op = "absolute_path" /\ query.state # Pending) =>
          /\ query.state = Ok
          /\ query.res = NamesOf(track, Chain(track, query.var))

\* C10 witness: relative_path has been read on the Text two levels inside
\* the List, which itself lies under a Folder.
C10_Witness ==
    /\ query.op = "relative_path"
    /\ query.var = "t1"
    /\ query.state = Ok
    /\ query.res = <<QueryName("f2"), QueryName("t1")>>
    /\ track["t1"].parent = "f2"
    /\ track["f2"].parent = "l1"
    /\ track["l1"].parent = "f1"

(***************************************************************************)
(* DocumentValueProvider (polytropos/actions/translate/__document.py).     *)
(* A document is a nested mapping.  It is modelled as a function from the  *)
(* paths of its nodes to the kind of value found there: <<>> is the        *)
(* document itself, "dict" a nested mapping, "leaf" any other value.       *)
(***************************************************************************)
\* deepest path of a document of the model
MaxDocDepth == 3

SourceNotFoundException == "SourceNotFoundException"
KeyError == "KeyError"

DocNameSeq == <<QueryName("f1"), QueryName("l1"), QueryName("t1")>>

DocIndex(name) == CHOOSE i \in 1..Len(DocNameSeq) : DocNameSeq[i] = name

\* the paths a document of the model may hold
DocPaths ==
    {p \in SeqsUpTo(Range(DocNameSeq), MaxDocDepth) :
        /\ p # <<>>
        /\ \A i \in 1..Len(p), j \in 1..Len(p) :
              i < j => DocIndex(p[i]) < DocIndex(p[j])}

Front(p) == SubSeq(p, 1, Len(p) - 1)

IsPrefix(p, r) == Len(p) <= Len(r) /\ p = SubSeq(r, 1, Len(p))

\* the documents: the root is a mapping and every node lies in a mapping
Documents ==
    {d \in UNION {[S \cup {<<>>} -> {"dict", "leaf"}] : S \in SUBSET DocPaths} :
        /\ d[<<>>] = "dict"
        /\ \A p \in DOMAIN d \ {<<>>} : Front(p) \in DOMAIN d /\ d[Front(p)] = "dict"}

\* len(document): the number of keys of the mapping
DocLen(d) == Cardinality({p \in DOMAIN d : Len(p) = 1})

\* result[name]: the value a mapping holds under a key
Item(d, name) ==
    [q \in {SubSeq(r, 2, Len(r)) : r \in {r \in DOMAIN d : IsPrefix(<<name>>, r)}} |->
        d[<<name>> \o q]]

\* the placeholder of a value not returned
NoValue == [p \in {<<>>} |-> "none"]

\* Variable.ancestors raises KeyError when a parent is not in the track
RECURSIVE ancestors_raises(_, _, _)
ancestors_raises(tr, current, parent_id_to_stop) ==
    IF tr[current].parent = None \/ tr[current].parent = parent_id_to_stop THEN FALSE
    ELSE IF tr[current].parent \notin DOMAIN tr THEN TRUE
    ELSE ancestors_raises(tr, tr[current].parent, parent_id_to_stop)

\* a variant of ancestors that never stops below the root
RECURSIVE ancestors_to_root(_, _, _)
ancestors_to_root(tr, current, parent_id_to_stop) ==
    IF tr[current].parent = None THEN <<current>>
    ELSE <<current>> \o ancestors_to_root(tr, tr[current].parent, parent_id_to_stop)

\* Variable.ancestors(parent_id_to_stop): self, self.parent, ... up to the
\* root or to the ancestor whose parent is parent_id_to_stop
RECURSIVE ancestors(_, _, _)
ancestors(tr, current, parent_id_to_stop) ==
    IF tr[current].parent = None \/ tr[current].parent = parent_id_to_stop
    THEN <<current>>
    ELSE <<current>> \o ancestors(tr, tr[current].parent, parent_id_to_stop)

\* reversed(...)
Reversed(s) == [i \in 1..Len(s) |-> s[Len(s) + 1 - i]]

\* DocumentValueProvider.value(path)
RECURSIVE value(_, _)
value(result, path) ==
    IF path = <<>> THEN [raised |-> Ok, val |-> result]
    ELSE IF result[<<>>] # "dict" THEN [raised |-> KeyError, val |-> NoValue]
    ELSE IF <<Head(path)>> \notin DOMAIN result THEN [raised |-> KeyError, val |-> NoValue]
    ELSE value(Item(result, Head(path)), Tail(path))

\* DocumentValueProvider.variable_value(variable, parent_id_to_stop)
variable_value(tr, document, variable, parent_id_to_stop) ==
    IF DocLen(document) = 0
    THEN [raised |-> SourceNotFoundException, val |-> NoValue]
    ELSE IF ancestors_raises(tr, variable, parent_id_to_stop)
    THEN [raised |-> KeyError, val |-> NoValue]
    ELSE LET anc == ancestors(tr, variable, parent_id_to_stop)
             path == Reversed([i \in 1..Len(anc) |-> tr[anc[i]].name])
             r == value(document, path)
         IN IF r.raised = KeyError
            THEN [raised |-> SourceNotFoundException, val |-> NoValue]
            ELSE r

VariableValueCalls ==
    {[op |-> "variable_value", document |-> d, var |-> v, parent_id_to_stop |-> s,
      state |-> Pending, res |-> NoValue] :
        d \in Documents, v \in Ids, s \in {None, "f1", "l1"}}

CallVariableValue ==
    /\ query.op = "variable_value" /\ query.state = Pending
    /\ LET r == variable_value(track, query.document, query.var, query.parent_id_to_stop)
       IN query' = [query EXCEPT !.state = r.raised, !.res = r.val]
    /\ UNCHANGED <<track, order, source, cache, outcome>>

InitDocument ==
    /\ track \in QueryTracks
    /\ order = QueryOrder
    /\ source = "upstream"
    /\ cache = [x \in Ids |-> EmptyCache]
    /\ outcome = Outcome("init", FALSE)
    /\ query \in VariableValueCalls

NextDocument == CallVariableValue

SpecDocument == InitDocument /\ [][NextDocument]_vars

\* the names of the chain of v, outermost first, from the root or from the
\* ancestor whose parent is stop
WalkedPath(tr, v, stop) ==
    LET chain == Chain(tr, v)
        cut == {i \in 2..Len(chain) : chain[i - 1] = stop}
        first == IF cut = {} THEN 1 ELSE CHOOSE i \in cut : TRUE
    IN NamesOf(tr, SubSeq(chain, first, Len(chain)))

\* the document holds a value at path, below mappings only
Found(d, path) ==
    /\ path \in DOMAIN d
    /\ \A i \in 0..(Len(path) - 1) : d[SubSeq(path, 1, i)] = "dict"

\* the part of the document found at path
ValueAt(d, path) ==
    [q \in {SubSeq(r, Len(path) + 1, Len(r)) : r \in {r \in DOMAIN d : IsPrefix(path, r)}} |->
        d[path \o q]]

\* C11: variable_value(variable, stop_id) returns the value found by walking
\* the document along the names of the variable's ancestor chain, outermost
\* first; it fails, with SourceNotFoundException and no other error, exactly
\* when the document is empty, a name of the path is missing at its level or
\* a value before the last segment is not a mapping; the document is left
\* as it was.
C11_VariableValueWalksChain ==
    [][(query.op = "variable_value" /\ query.state = Pending /\ query'.state # Pending) =>
        LET path == WalkedPath(track, query.var, query.parent_id_to_stop)
            found == DocLen(query.document) # 0 /\ Found(query.document, path)
        IN /\ query'.document = query.document
           /\ query'.state \in {Ok, SourceNotFoundException}
           /\ query'.state = Ok <=> found
           /\ found => query'.res = ValueAt(query.document, path)]_vars

\* C11 witness: the value of the Text under the List has been looked up
\* with the List as the stop id, and found under the Text's own name.
C11_Witness ==
    /\ query.op = "variable_value"
    /\ query.state = Ok
    /\ query.var = "t1"
    /\ query.parent_id_to_stop = "l1"
    /\ track["t1"].parent = "l1"
    /\ track["l1"].parent = "f1"
    /\ <<QueryName("f1")>> \notin DOMAIN query.document
    /\ query.res = ValueAt(query.document, <<QueryName("t1")>>)
    /\ query.res[<<>>] = "dict"

(***************************************************************************)
(* NamedListTranslator                                                     *)
(* (polytropos/actions/translate/type_translators/__named_list.py).        *)
(* The translator object is held in query: its result, a mapping from keys *)
(* to translated elements, and the process_source_value calls made on it.  *)
(***************************************************************************)
\* most process_source_value calls made on one translator
MaxCalls == 3

ValueError == "ValueError"
RuntimeError == "RuntimeError"

NamedListKeys == {"a", "b"}
NamedListItems == {1, 2}

\* the id of the NamedList variable under translation
NamedListVarId == "n1"

\* the source of the i-th call: each source of the variable is processed once
SourceIdOf(i) == <<"s", i>>

\* a source mapping is its items() in iteration order: pairs of a key and a
\* raw element, with distinct keys
SourceMappings ==
    {m \in SeqsUpTo(NamedListKeys \X NamedListItems, Cardinality(NamedListKeys)) :
        \A i \in 1..Len(m), j \in 1..Len(m) : i # j => m[i][1] # m[j][1]}

\* the source values handed to process_source_value: a mapping or None
SourceValues ==
    {[is_none |-> FALSE, items |-> m] : m \in SourceMappings}
        \cup {[is_none |-> TRUE, items |-> <<>>]}

\* self.translator.translate(item, var_id, source_id): the translated element
translate(item, var_id, source_id) ==
    [item |-> item, var_id |-> var_id, source_id |-> source_id]

\* NamedListTranslator.initial_result
initial_result == [k \in {} |-> translate(1, NamedListVarId, SourceIdOf(0))]

\* self.result[key] = element
SetItem(result, key, element) ==
    [k \in DOMAIN result \cup {key} |-> IF k = key THEN element ELSE result[k]]

\* a variant of the items loop that lets a later element replace an entry
RECURSIVE items_loop_overwriting(_, _, _)
items_loop_overwriting(result, items, source_id) ==
    IF items = <<>> THEN [raised |-> Ok, result |-> result]
    ELSE items_loop_overwriting(
            SetItem(result, Head(items)[1],
                    translate(Head(items)[2], NamedListVarId, source_id)),
            Tail(items), source_id)

\* the loop over source_value.items() of process_source_value
RECURSIVE items_loop(_, _, _)
items_loop(result, items, source_id) ==
    IF items = <<>> THEN [raised |-> Ok, result |-> result]
    ELSE IF Head(items)[1] \in DOMAIN result
    THEN [raised |-> ValueError, result |-> result]
    ELSE items_loop(
            SetItem(result, Head(items)[1],
                    translate(Head(items)[2], NamedListVarId, source_id)),
            Tail(items), source_id)

\* NamedListTranslator.process_source_value(source_value, source_id)
process_source_value(result, source_value, source_id) ==
    IF source_value.is_none THEN [raised |-> RuntimeError, result |-> result]
    ELSE items_loop(result, source_value.items, source_id)

\* one call of process_source_value on the translator
ProcessSourceValue ==
    /\ query.op = "process_source_value"
    /\ Len(query.calls) < MaxCalls
    /\ \E source_value \in SourceValues :
          LET source_id == SourceIdOf(Len(query.calls) + 1)
              r == process_source_value(query.result, source_value, source_id)
          IN /\ query' = [query EXCEPT
                            !.result = r.result,
                            !.calls = Append(@, [source_value |-> source_value,
                                                 source_id |-> source_id,
                                                 raised |-> r.raised])]
             /\ outcome' = Outcome("process_source_value", r.raised # Ok)
    /\ UNCHANGED <<track, order, source, cache>>

InitTranslator ==
    /\ track = (NamedListVarId :> Var(NamedListVarId, NamedList, <<"a">>, 0, None, <<>>))
    /\ order = <<NamedListVarId>>
    /\ source = "upstream"
    /\ cache = (NamedListVarId :> EmptyCache)
    /\ outcome = Outcome("init", FALSE)
    /\ query = [op |-> "process_source_value", result |-> initial_result, calls |-> <<>>]

NextTranslator == ProcessSourceValue

SpecTranslator == InitTranslator /\ [][NextTranslator]_vars

\* the keys of a processed source value
KeysOf(source_value) == {source_value.items[i][1] : i \in 1..Len(source_value.items)}

\* the element a source mapping holds under a key
ItemOf(source_value, key) ==
    source_value.items[CHOOSE i \in 1..Len(source_value.items) :
                          source_value.items[i][1] = key][2]

\* C12: a process_source_value call that meets a key already in the result
\* fails with ValueError and leaves every existing entry as it was; while no
\* call has failed, the keys of the result are the disjoint union of the
\* keys of the processed source mappings, each entry being the translation
\* of the one element that produced its key.
C12_EachKeyFromOneElement ==
    [][(query.op = "process_source_value" /\ Len(query'.calls) = Len(query.calls) + 1) =>
        LET call == query'.calls[Len(query'.calls)]
            calls == query'.calls
        IN /\ (~call.source_value.is_none
                 /\ KeysOf(call.source_value) \cap DOMAIN query.result # {}) =>
                  /\ call.raised = ValueError
                  /\ \A k \in DOMAIN query.result : query'.result[k] = query.result[k]
           /\ (\A i \in 1..Len(calls) : calls[i].raised = Ok) =>
                  /\ DOMAIN query'.result =
                        UNION {KeysOf(calls[i].source_value) : i \in 1..Len(calls)}
                  /\ \A i \in 1..Len(calls), j \in 1..Len(calls) :
                        i # j => KeysOf(calls[i].source_value)
                                    \cap KeysOf(calls[j].source_value) = {}
                  /\ \A i \in 1..Len(calls) : \A k \in KeysOf(calls[i].source_value) :
                        query'.result[k] =
                            translate(ItemOf(calls[i].source_value, k), NamedListVarId,
                                      calls[i].source_id)]_vars

\* C12 witness: the second source mapping repeats key "a" with another
\* element after adding key "b"; the call has failed and "a" still holds the
\* translation of the first source's element.
C12_Witness ==
    /\ query.op = "process_source_value"
    /\ Len(query.calls) = 2
    /\ query.calls[1].raised = Ok
    /\ query.calls[1].source_value.items = <<<<"a", 1>>>>
    /\ query.calls[2].raised = ValueError
    /\ query.calls[2].source_value.items = <<<<"b", 2>>, <<"a", 2>>>>
    /\ query.result["a"] = translate(1, NamedListVarId, SourceIdOf(1))
    /\ outcome = Outcome("process_source_value", TRUE)

(***************************************************************************)
(* Metamorphosis (etl4/ontology/metamorphosis/__metamorphosis.py) with the *)
(* Changes of fixtures/conf/changes/vitals.py.  A composite holds the      *)
(* weight observed in each period and the values of its invariant fields.  *)
(* The Metamorphosis object, the composite it is applied to and the record *)
(* of the Changes invoked are held in query.                               *)
(***************************************************************************)
\* most entries of a change specification
MaxChanges == 2

AttributeError == "AttributeError"

\* the values of a composite: text, numbers, and the absence of a value
Str(s) == [type |-> "str", s |-> s, n |-> 0]
Num(n) == [type |-> "num", s |-> "", n |-> n]
Missing == [type |-> "missing", s |-> "", n |-> 0]

\* the invariant variables of the schema, flat under the root, standing for
\* their absolute paths
Fields == {"x", "y"}

\* the periods a composite may hold, in the order of their labels
PeriodSeq == <<"2020", "2021">>
WeightIn(period) == IF period = "2020" THEN 70 ELSE 75

Composites ==
    {[periods |-> [p \in ps |-> WeightIn(p)], invariant |-> inv] :
        ps \in SUBSET Range(PeriodSeq),
        inv \in [Fields -> {Missing, Str("Alice"), Str("female")}]}

\* the lookup table "genders"
Genders == [name \in {"alice", "female"} |-> IF name = "alice" THEN "female" ELSE "f"]

\* str.lower
Lower(s) == IF s = "Alice" THEN "alice" ELSE s

\* the entries of a change specification: the registered name of a Change
\* and the ids of its subject variables (the two roles of CalculateWeightGain,
\* weight_var and weight_gain_var, are held in the same two fields)
SpecEntries ==
    {[name |-> "DetermineGender", person_name_var |-> i, gender_var |-> o] :
        i \in Fields, o \in Fields}
    \cup {[name |-> "CalculateWeightGain", person_name_var |-> "weight", gender_var |-> o] :
        o \in Fields}

\* all_changes[name](**variables, lookups=..., schema=...): the instance
NewChange(spec) ==
    [class |-> spec.name, reads |-> spec.person_name_var, writes |-> spec.gender_var]

\* a variant of build that puts each new instance in front of the others
RECURSIVE build_prepending(_)
build_prepending(changes) ==
    IF changes = <<>> THEN <<>>
    ELSE <<NewChange(changes[Len(changes)])>> \o build_prepending(Front(changes))

\* Metamorphosis.build: one instance per spec entry, appended in turn
RECURSIVE build(_)
build(changes) ==
    IF changes = <<>> THEN <<>>
    ELSE Append(build(Front(changes)), NewChange(changes[Len(changes)]))

\* nesteddicts.put(composite, ["invariant"] + path, value)
Put(composite, field, v) ==
    [composite EXCEPT !.invariant = [@ EXCEPT ![field] = v]]

\* min and max of the period labels
Earliest(ps) == PeriodSeq[CHOOSE i \in 1..Len(PeriodSeq) :
                    PeriodSeq[i] \in ps /\ \A j \in 1..(i - 1) : PeriodSeq[j] \notin ps]
Latest(ps) == PeriodSeq[CHOOSE i \in 1..Len(PeriodSeq) :
                    PeriodSeq[i] \in ps /\ \A j \in (i + 1)..Len(PeriodSeq) : PeriodSeq[j] \notin ps]

\* CalculateWeightGain.__call__
CalculateWeightGain(change, composite) ==
    LET periods == DOMAIN composite.periods
    IN IF periods = {}
       THEN [raised |-> ValueError, composite |-> composite, read |-> Missing]
       ELSE LET weight_gain == composite.periods[Latest(periods)]
                                  - composite.periods[Earliest(periods)]
            IN [raised |-> Ok,
                composite |-> Put(composite, change.writes, Num(weight_gain)),
                read |-> Missing]

\* DetermineGender.__call__
DetermineGender(change, composite) ==
    LET person_name == composite.invariant[change.reads]
    IN IF person_name = Missing
       THEN [raised |-> KeyError, composite |-> composite, read |-> person_name]
       ELSE IF person_name.type # "str"
       THEN [raised |-> AttributeError, composite |-> composite, read |-> person_name]
       ELSE IF Lower(person_name.s) \notin DOMAIN Genders
       THEN [raised |-> KeyError, composite |-> composite, read |-> person_name]
       ELSE [raised |-> Ok,
             composite |-> Put(composite, change.writes, Str(Genders[Lower(person_name.s)])),
             read |-> person_name]

\* change(composite)
CallOf(change, composite) ==
    IF change.class = "DetermineGender" THEN DetermineGender(change, composite)
    ELSE CalculateWeightGain(change, composite)

\* Metamorphosis.build(changes, lookups, schema)
Build ==
    /\ query.op = "metamorphosis" /\ query.state = "spec"
    /\ query' = [query EXCEPT !.state = "applying", !.changes = build(query.specs)]
    /\ UNCHANGED <<track, order, source, cache, outcome>>

\* one iteration of the loop of Metamorphosis.__call__: the next Change is
\* called on the composite; an exception it raises leaves __call__
CallChange ==
    /\ query.op = "metamorphosis" /\ query.state = "applying"
    /\ Len(query.log) < Len(query.changes)
    /\ LET i == Len(query.log) + 1
           r == CallOf(query.changes[i], query.composite)
       IN /\ query' = [query EXCEPT
                         !.state = IF r.raised = Ok THEN "applying" ELSE "raised",
                         !.composite = r.composite,
                         !.log = Append(@, [change |-> query.changes[i],
                                            before |-> query.composite,
                                            after |-> r.composite,
                                            read |-> r.read,
                                            raised |-> r.raised])]
          /\ outcome' = Outcome("change", r.raised # Ok)
    /\ UNCHANGED <<track, order, source, cache>>

\* the loop of Metamorphosis.__call__ is exhausted: it returns
ReturnFromCall ==
    /\ query.op = "metamorphosis" /\ query.state = "applying"
    /\ Len(query.log) = Len(query.changes)
    /\ query' = [query EXCEPT !.state = "returned"]
    /\ outcome' = Outcome("__call__", FALSE)
    /\ UNCHANGED <<track, order, source, cache>>

InitMetamorphosis ==
    /\ track = [f \in Fields |-> Var(f, Text, <<f>>, IF f = "x" THEN 0 ELSE 1, None, <<>>)]
    /\ order = <<"x", "y">>
    /\ source = None
    /\ cache = [f \in Fields |-> EmptyCache]
    /\ outcome = Outcome("init", FALSE)
    /\ \E specs \in SeqsUpTo(SpecEntries, MaxChanges), composite \in Composites :
          query = [op |-> "metamorphosis", state |-> "spec", specs |-> specs,
                   changes |-> <<>>, given |-> composite, composite |-> composite,
                   log |-> <<>>]

NextMetamorphosis ==
    \/ Build
    \/ CallChange
    \/ ReturnFromCall

SpecMetamorphosis == InitMetamorphosis /\ [][NextMetamorphosis]_vars

\* the value of a field when the j-th Change of the log starts: written by
\* the last earlier Change that writes the field, otherwise as given
LastWritten(log, given, j, field) ==
    LET writers == {i \in 1..(j - 1) : log[i].change.writes = field}
    IN IF writers = {} THEN given.invariant[field]
       ELSE log[CHOOSE i \in writers : \A k \in writers : k <= i].after.invariant[field]

\* C13: build instantiates the Changes in the order of the spec entries;
\* the Changes invoked by an application are, in order and once each, the
\* first Changes of that list, all of them once the application has
\* returned; each starts on the composite as the previous one left it, so a
\* Change reads in a field the value the last Change before it wrote there.
C13_ChangesAppliedInOrder ==
    (query.op = "metamorphosis" /\ query.state # "spec") =>
        /\ Len(query.changes) = Len(query.specs)
        /\ \A i \in 1..Len(query.specs) : query.changes[i] = NewChange(query.specs[i])
        /\ Len(query.log) <= Len(query.changes)
        /\ \A j \in 1..Len(query.log) :
              /\ query.log[j].change = NewChange(query.specs[j])
              /\ query.log[j].before = IF j = 1 THEN query.given ELSE query.log[j - 1].after
              /\ j < Len(query.log) => query.log[j].raised = Ok
              /\ query.log[j].change.class = "DetermineGender" =>
                    query.log[j].read =
                        LastWritten(query.log, query.given, j, query.log[j].change.reads)
        /\ query.state = "returned" =>
              /\ Len(query.log) = Len(query.changes)
              /\ \A j \in 1..Len(query.log) : query.log[j].raised = Ok
              /\ query.composite =
                    IF query.log = <<>> THEN query.given
                    ELSE query.log[Len(query.log)].after

\* C13 witness: a Change that writes field y from x is followed by one that
\* reads y; the application has returned and the second Change has read
\* the value the first one wrote, which the composite did not hold before.
C13_Witness ==
    /\ query.op = "metamorphosis"
    /\ query.state = "returned"
    /\ Len(query.log) = 2
    /\ query.specs[1] = [name |-> "DetermineGender", person_name_var |-> "x", gender_var |-> "y"]
    /\ query.specs[2] = [name |-> "DetermineGender", person_name_var |-> "y", gender_var |-> "x"]
    /\ query.given.invariant["x"] = Str("Alice")
    /\ query.given.invariant["y"] = Missing
    /\ query.log[2].read = Str("female")
    /\ query.composite.invariant["x"] = Str("f")

(***************************************************************************)
(* The batch Filter driver (polytropos/actions/filter/_filter.py).         *)
(* Filter.__call__ hands every file of the origin directory to a thread    *)
(* pool and then reads the results in directory order.  The files, the     *)
(* state of each task, the position of the calling thread and the target   *)
(* directory are held in query.                                            *)
(***************************************************************************)
\* most files of an origin directory
MaxFiles == 3
\* threads of the pool
MaxWorkers == 2

\* what processing a file does: it raises somewhere inside the try block
\* (unreadable file, invalid JSON, Composite or passes raising), or it ends
\* with passes returning True or False
FileKinds == {"raises", "passes", "rejected"}

Directories == SeqsUpTo(FileKinds, MaxFiles)

\* the tasks that are being run by a thread of the pool
Running(task) == {i \in 1..Len(task) : task[i] = "running"}

\* Filter.process_composite: None, or the exception wrapped and returned
process_composite(kind) == IF kind = "raises" THEN "ExceptionWrapper" ELSE "None"

\* a variant of the pool shutdown that abandons the tasks not yet started
shutdown_abandoning_queued(task) == \A i \in 1..Len(task) : task[i] # "running"

\* ThreadPoolExecutor.__exit__, shutdown(wait=True): returns once every
\* submitted task has been run
shutdown_wait(task) == \A i \in 1..Len(task) : task[i] = "done"

\* Filter.__call__ up to the end of executor.map: every file is submitted
CallFilter ==
    /\ query.op = "filter" /\ query.main = "called"
    /\ query' = [query EXCEPT !.main = "iterating",
                              !.task = [i \in 1..Len(query.files) |-> "queued"]]
    /\ UNCHANGED <<track, order, source, cache, outcome>>

\* a free thread of the pool takes the first queued task
StartTask ==
    /\ query.op = "filter"
    /\ Cardinality(Running(query.task)) < MaxWorkers
    /\ \E i \in 1..Len(query.task) :
          /\ query.task[i] = "queued"
          /\ \A j \in 1..(i - 1) : query.task[j] # "queued"
          /\ query' = [query EXCEPT !.task[i] = "running"]
    /\ UNCHANGED <<track, order, source, cache, outcome>>

\* process_composite returns in its thread: the file has been written to
\* the target directory if it passes, an exception has been wrapped
FinishTask ==
    /\ query.op = "filter"
    /\ \E i \in Running(query.task) :
          query' = [query EXCEPT
                      !.task[i] = "done",
                      !.result[i] = process_composite(query.files[i]),
                      !.target = IF query.files[i] = "passes" THEN @ \cup {i} ELSE @]
    /\ UNCHANGED <<track, order, source, cache, outcome>>

\* the loop over results: the next result, in directory order, is ready;
\* None moves on, an ExceptionWrapper is re-raised out of the loop
NextResult ==
    /\ query.op = "filter" /\ query.main = "iterating"
    /\ query.pos <= Len(query.files)
    /\ query.task[query.pos] = "done"
    /\ query' =
          IF query.result[query.pos] = "None"
          THEN [query EXCEPT !.pos = @ + 1]
          ELSE [query EXCEPT
                  !.main = "shutdown",
                  !.raising = {query.pos},
                  !.unfinished = {i \in 1..Len(query.task) : query.task[i] # "done"}]
    /\ UNCHANGED <<track, order, source, cache, outcome>>

\* the loop over results is exhausted
EndOfResults ==
    /\ query.op = "filter" /\ query.main = "iterating"
    /\ query.pos > Len(query.files)
    /\ query' = [query EXCEPT !.main = "shutdown"]
    /\ UNCHANGED <<track, order, source, cache, outcome>>

\* the with block is left: the pool is shut down, then __call__ returns or
\* the exception being re-raised reaches the caller
LeaveCall ==
    /\ query.op = "filter" /\ query.main = "shutdown"
    /\ shutdown_wait(query.task)
    /\ query' = [query EXCEPT !.main = IF query.raising = {} THEN "returned" ELSE "raised",
                              !.reported = query.raising]
    /\ outcome' = Outcome("filter", query.raising # {})
    /\ UNCHANGED <<track, order, source, cache>>

InitFilter ==
    /\ track = (NamedListVarId :> Var(NamedListVarId, NamedList, <<"a">>, 0, None, <<>>))
    /\ order = <<NamedListVarId>>
    /\ source = None
    /\ cache = (NamedListVarId :> EmptyCache)
    /\ outcome = Outcome("init", FALSE)
    /\ \E files \in Directories :
          query = [op |-> "filter", files |-> files, main |-> "called",
                   task |-> [i \in 1..Len(files) |-> "listed"],
                   result |-> [i \in 1..Len(files) |-> "pending"],
                   pos |-> 1, raising |-> {}, unfinished |-> {}, reported |-> {},
                   target |-> {}]

NextFilter ==
    \/ CallFilter
    \/ StartTask
    \/ FinishTask
    \/ NextResult
    \/ EndOfResults
    \/ LeaveCall

SpecFilter == InitFilter /\ [][NextFilter]_vars

\* the files whose processing raises
Failing(files) == {i \in 1..Len(files) : files[i] = "raises"}

\* C14: a failure while processing one file does not abort the others: when
\* Filter.__call__ returns or raises to its caller, process_composite has
\* run to completion for every file of the batch, each failure has been
\* captured as the value returned for its file, and every file that passes
\* has been written.
C14_FailureDoesNotAbortSiblings ==
    (query.op = "filter" /\ query.main \in {"returned", "raised"}) =>
        /\ \A i \in 1..Len(query.files) :
              /\ query.task[i] = "done"
              /\ query.result[i] = "ExceptionWrapper" <=> i \in Failing(query.files)
              /\ query.result[i] = "None" <=> i \notin Failing(query.files)
        /\ query.target = {i \in 1..Len(query.files) : query.files[i] = "passes"}
        /\ query.main = "raised" <=> Failing(query.files) # {}

\* C14 witness: the first file failed and its failure was met by the caller
\* while another file was not yet processed; the call has raised and that
\* file has been written to the target directory.
C14_Witness ==
    /\ query.op = "filter"
    /\ query.main = "raised"
    /\ 1 \in Failing(query.files)
    /\ \E i \in query.unfinished : query.files[i] = "passes" /\ i \in query.target

\* C15: every captured failure reaches the caller: when Filter.__call__
\* has ended, the failures reported or re-raised to its caller are those of
\* all the files whose processing failed.
C15_EveryFailureReported ==
    (query.op = "filter" /\ query.main \in {"returned", "raised"}) =>
        query.reported = Failing(query.files)

(***************************************************************************)
(* Writes of sources under a List: the List l1 holds the Folder f2, and    *)
(* the Texts t1 and t2 lie directly under the List or under the Folder.    *)
(***************************************************************************)
PruneOrder == <<"l1", "f2", "t1", "t2">>

PruneTracks ==
    {[x \in Range(PruneOrder) |->
        CASE x = "l1" -> Var("l1", List, <<"a">>, 0, None, ls)
          [] x = "f2" -> Var("f2", Folder, <<"a">>, 0, "l1", <<>>)
          [] x = "t1" -> Var("t1", Text, <<"b">>, IF p1 = "l1" THEN 1 ELSE 0, p1, s1)
          [] OTHER    -> Var("t2", Text, <<"c">>,
                             IF p1 = p2 THEN (IF p2 = "l1" THEN 2 ELSE 1)
                             ELSE (IF p2 = "l1" THEN 1 ELSE 0), p2, s2)] :
        ls \in {<<>>, <<"sl">>, <<"sf">>},
        p1 \in {"l1", "f2"}, p2 \in {"l1", "f2"},
        s1 \in {<<>>, <<"st">>}, s2 \in {<<>>, <<"st">>}}

\* variable.sources = value, the call being kept in query
WriteSources(v) ==
    \E sources \in SourcesInputs :
        LET r == setattr(track, order, source, cache, v, "sources", sources)
        IN /\ track' = r.track
           /\ cache' = r.cache
           /\ outcome' = Outcome("sources", r.raised)
           /\ query' = [op |-> "set_sources", var |-> v, value |-> sources]
           /\ UNCHANGED <<order, source>>

InitPrune ==
    /\ track \in PruneTracks
    /\ order = PruneOrder
    /\ source = "upstream"
    /\ cache = [x \in Range(PruneOrder) |-> EmptyCache]
    /\ outcome = Outcome("init", FALSE)
    /\ query = NoQuery

NextPrune == \E v \in DOMAIN track : WriteSources(v)

SpecPrune == InitPrune /\ [][NextPrune]_vars

\* the source ids of a list that descend, in the upstream Track, from some
\* member of S
Retained(sources, S) ==
    SelectSeq(sources,
              LAMBDA sid : \E i \in 1..Len(S) :
                  S[i] \in DOMAIN Upstream /\ sid \in DOMAIN Upstream
                  /\ ProperAncestor(Upstream, S[i], sid))

\* C16: after an accepted write of sources S on a List or NamedList L, every
\* descendant of L, at any depth, keeps of its own sources exactly those
\* that descend in the upstream Track from some member of S, and the
\* sources of the variables outside L's subtree are unchanged.
C16_DescendantSourcesPruned ==
    [][(query'.op = "set_sources" /\ outcome'.res = Ok
            /\ GenericList(track[query'.var].kind)) =>
        \A x \in DOMAIN track :
            /\ ProperAncestor(track, query'.var, x) =>
                  track'[x].sources = Retained(track[x].sources, query'.value)
            /\ (x # query'.var /\ ~ProperAncestor(track, query'.var, x)) =>
                  track'[x].sources = track[x].sources]_vars

(***************************************************************************)
(* Variable.descendants_that: a generator function under cachedmethod.     *)
(* The Track queried is track; its target (downstream) Track holds one     *)
(* Text variable whose sources point into track.  The target's sources,    *)
(* the generator objects memoized so far and the last call are held in     *)
(* query.                                                                  *)
(***************************************************************************)
\* the variables descendants_that is called on
QueriedIds == {"f1"}

\* the arguments of a call; data_type is None, container and inside_list
\* are 0
DescendantsArgs == [targets : {-1, 0, 1}]

\* the one variable of the target Track
TargetVar(sources) == Var("d1", Text, <<"a">>, 0, None, sources)

TargetSourcesInputs == SeqsUpTo(Ids \cup {"zz"}, MaxSrcLen)

\* Variable.targets: the variables of the target Track that list var_id
\* among their sources
targets(target, var_id) ==
    SelectSeq(<<"d1">>, LAMBDA d : var_id \in Range(target[d].sources))

\* Track.descendants_that(data_type, targets, container, inside_list): the
\* ids of the Track, in its order, that meet the criteria
track_descendants_that(tr, ord, target, args) ==
    SelectSeq(values(ord),
              LAMBDA x :
                  /\ args.targets = 1 => targets(target, x) # <<>>
                  /\ args.targets = -1 => targets(target, x) = <<>>)

\* the body of Variable.descendants_that: what a new generator yields
descendants_that_body(tr, ord, target, var_id, args) ==
    SelectSeq(track_descendants_that(tr, ord, target, args),
              LAMBDA x : check_ancestor(tr, var_id, x, TRUE) = "T")

\* the caller consumes the generator object to its end
consume(generator) ==
    [yielded |-> generator.remaining,
     generator |-> [generator EXCEPT !.remaining = <<>>]]

\* cachedmethod: the generator object made by the first call with a key is
\* stored and handed out again by every later call with that key
descendants_that(tr, ord, target, memo, var_id, args) ==
    LET key == <<var_id, args>>
    IN IF key \in DOMAIN memo THEN [generator |-> memo[key], hit |-> TRUE]
       ELSE [generator |-> [remaining |-> descendants_that_body(tr, ord, target, var_id, args),
                            first |-> Range(descendants_that_body(tr, ord, target, var_id, args)),
                            target |-> target],
             hit |-> FALSE]

\* a call of descendants_that whose result is consumed to its end
CallDescendantsThat ==
    /\ query.op = "descendants_that"
    /\ \E var_id \in QueriedIds, args \in DescendantsArgs :
          LET key == <<var_id, args>>
              called == descendants_that(track, order, query.target, query.memo, var_id, args)
              used == consume(called.generator)
          IN query' = [query EXCEPT
                         !.memo = [k \in DOMAIN query.memo \cup {key} |->
                                      IF k = key THEN used.generator ELSE query.memo[k]],
                         !.tick = 1 - @,
                         !.last = [var |-> var_id, args |-> args, hit |-> called.hit,
                                   yielded |-> Range(used.yielded)]]
    /\ UNCHANGED <<track, order, source, cache, outcome>>

\* variable.sources = value on the variable of the target Track, whose
\* source Track is track: validated, then written; no cache is invalidated
WriteTargetSources ==
    /\ query.op = "descendants_that"
    /\ \E sources \in TargetSourcesInputs :
          LET variable == query.target["d1"]
              raised == \E i \in 1..Len(sources) :
                            \/ sources[i] \notin DOMAIN track
                            \/ incompatible_type(track[sources[i]], variable)
          IN /\ query' = IF raised THEN query
                         ELSE [query EXCEPT !.target = [d \in {"d1"} |-> TargetVar(sources)]]
             /\ outcome' = Outcome("sources", raised)
    /\ UNCHANGED <<track, order, source, cache>>

InitDescendants ==
    /\ track \in {tr \in QueryTracks : tr["f2"].parent = "f1" /\ tr["l1"].parent # "f2"}
    /\ order = QueryOrder
    /\ source = None
    /\ cache = [x \in Ids |-> EmptyCache]
    /\ outcome = Outcome("init", FALSE)
    /\ query = [op |-> "descendants_that", target |-> [d \in {"d1"} |-> TargetVar(<<>>)],
                memo |-> [k \in {} |-> [remaining |-> <<>>, first |-> {},
                                        target |-> [d \in {"d1"} |-> TargetVar(<<>>)]]],
                tick |-> 0,
                last |-> [var |-> "f1", args |-> [targets |-> 0],
                          hit |-> FALSE, yielded |-> {}]]

NextDescendants ==
    \/ CallDescendantsThat
    \/ WriteTargetSources

SpecDescendants == InitDescendants /\ [][NextDescendants]_vars

\* C17: a call of descendants_that that repeats an earlier call, with no
\* change of the schema since, yields the same set of ids as that call; and
\* a call with a targets filter yields the descendants that meet the filter
\* with the sources the target Track has now.
C17_DescendantsThatRepeatable ==
    [][(query.op = "descendants_that" /\ query'.tick # query.tick) =>
        LET key == <<query'.last.var, query'.last.args>>
        IN /\ (key \in DOMAIN query.memo /\ query.memo[key].target = query.target) =>
                  query'.last.yielded = query.memo[key].first
           /\ query'.last.args.targets # 0 =>
                  query'.last.yielded =
                      Range(descendants_that_body(track, order, query.target,
                                                  query'.last.var, query'.last.args))]_vars

====
